---- MODULE Spec2Model ----
(***************************************************************************)
(* Langulus::literal_t<T, N> (include/Langulus/Literal.hpp): a fixed      *)
(* capacity literal that is a single value (N = 0), a zero terminated     *)
(* string of at most N characters stored in N + 1 slots (N > 0), or the   *)
(* undefined placeholder (T = Unsupported).                                *)
(*                                                                         *)
(* A literal is the record [T, N, data]: T the element type, N the        *)
(* capacity (the template argument), data the std::array<T, N + 1>, slot  *)
(* k of the array being data[k + 1].  Elements are small naturals, 0 is   *)
(* the value-initialised element (the terminator).                        *)
(***************************************************************************)
EXTENDS Integers, Sequences, FiniteSets, TLC

VARIABLES lit, res

vars == <<lit, res>>

----------------------------------------------------------------------------
(* Bounds of the model *)

\* the literals that are constructed directly have the capacities 1..MaxCap
\* that are powers of two
MaxCap == 2
\* elements are 0..MaxChar
MaxChar == 2
\* arguments of Resized<M> are 0..MaxM
MaxM == 9

Elems == 0..MaxChar

----------------------------------------------------------------------------
(* Element types *)

\* the character types accepted by CT::LiteralChar
CharTypes == {"char", "wchar_t"}

\* struct Unsupported {}
Sentinel == "Unsupported"

\* element types of single values: two arithmetic types and a class type
\* that is equality comparable with itself only
ValueTypes == {"char", "float", "Opaque"}

AllTypes == CharTypes \cup ValueTypes \cup {Sentinel}

\* the character type of the strings that are constructed as objects (the
\* widening constructor and so operator + exist for char only)
StringTypes == {"char"}

Arithmetic == {"char", "wchar_t", "float"}

\* std::equality_comparable_with<T1, T2>
ComparableWith(T1, T2) ==
    \/ T1 \in Arithmetic /\ T2 \in Arithmetic
    \/ T1 = "Opaque" /\ T2 = "Opaque"

----------------------------------------------------------------------------
(* Capacity model *)

RECURSIVE CeilFrom(_, _)
CeilFrom(p, M) == IF p >= M THEN p ELSE CeilFrom(2 * p, M)

RECURSIVE CeilFromStrict(_, _)
CeilFromStrict(p, M) == IF p > M THEN p ELSE CeilFromStrict(2 * p, M)

\* a rounding that rounds an exact power of two up to the next one
bit_ceil_strict(M) == CeilFromStrict(1, M)

\* std::bit_ceil: the smallest power of two that is not smaller than M
bit_ceil(M) == CeilFrom(1, M)

\* literal_t<T, N>::Resized<M> is literal_t<T, bit_ceil(M)>
Resized(M) == bit_ceil(M)

\* std::has_single_bit
has_single_bit(n) == \E k \in 0..n : 2^k = n

\* static_assert(N == 0 or has_single_bit(N))
Instantiable(N) == N = 0 \/ has_single_bit(N)

Caps == {n \in 1..MaxCap : has_single_bit(n)}

\* the largest capacity of a directly constructed literal
TopCap == CHOOSE n \in Caps : \A k \in Caps : k <= n

----------------------------------------------------------------------------
(* Category classifier *)

LiteralChar(T) == T \in CharTypes

LiteralString(T, N) == N > 0 /\ LiteralChar(T)

LiteralValue(T, N) == N = 0 /\ T # Sentinel

LiteralUndefined(T, N) == T = Sentinel

IsString(l) == LiteralString(l.T, l.N)
IsValue(l) == LiteralValue(l.T, l.N)
IsUndefined(l) == LiteralUndefined(l.T, l.N)

----------------------------------------------------------------------------
(* Storage core *)

\* literal_t() = default: every slot value-initialised
DefaultCtor(T, N) == [T |-> T, N |-> N, data |-> [i \in 1..(N + 1) |-> 0]]

\* literal_t(const value_type& c), deduced as literal_t<T, 0>
ValueCtor(T, c) == [T |-> T, N |-> 0, data |-> <<c>>]

\* literal_t(const value_type(&array)[M]) requires M <= N + 1
ArrayCtor_Short(T, N, array) ==
    [T |-> T, N |-> N,
     data |-> [i \in 1..(N + 1) |-> IF i < Len(array) - 1 THEN array[i] ELSE 0]]
ArrayCtor(T, N, array) ==
    [T |-> T, N |-> N,
     data |-> [i \in 1..(N + 1) |-> IF i <= Len(array) THEN array[i] ELSE 0]]

\* literal_t(const literal_t<char, M>& other) requires M <= N
WidenCtor(T, N, other) ==
    LET M == other.N
        copied == [i \in 1..(N + 1) |-> IF i <= M THEN other.data[i] ELSE 0]
    IN  [T |-> T, N |-> N, data |-> [copied EXCEPT ![M + 1] = 0]]

\* operator = (const value_type(&array)[N])
AssignArrayOp(l, array) ==
    [l EXCEPT !.data = [i \in 1..(l.N + 1) |->
                           IF i <= l.N THEN array[i] ELSE l.data[i]]]

RECURSIVE Scan(_, _, _)
Scan(data, N, p) ==
    IF p # N /\ data[p + 1] # 0 THEN Scan(data, N, p + 1) ELSE p

\* size(): scan the first N slots for the terminator
size(l) == IF l.N > 0 /\ l.T # Sentinel THEN Scan(l.data, l.N, 0) ELSE 0

\* an emptiness test that joins its two conditions with "and"
empty_conj(l) ==
    IF l.N > 0 /\ l.T # Sentinel THEN l.N = 0 /\ l.data[1] = 0 ELSE TRUE

\* empty()
empty(l) ==
    IF l.N > 0 /\ l.T # Sentinel THEN l.N = 0 \/ l.data[1] = 0 ELSE TRUE

\* explicit operator bool
ToBool_Defined(l) == l.T # Sentinel
ToBool(l) == IF l.T = Sentinel THEN FALSE ELSE l.data[1] # 0

\* operator [] (n): slot n of a string, slot 0 when N == 0
At(l, n) == IF l.N > 0 THEN l.data[n + 1] ELSE l.data[1]

\* a bounds check that lets the index size() through
SubscriptThrows_Lax(l, n, safe) == safe /\ l.N > 0 /\ n > size(l)

\* operator [] (n) under LANGULUS_OPTION_SAFE_MODE throws std::range_error
\* for n >= size() when N > 0; without the option nothing is checked
SubscriptThrows(l, n, safe) == safe /\ l.N > 0 /\ n >= size(l)

\* the elements operator [] (n) can return: the slot when it exists, any
\* element when the index is outside std::array<T, N + 1>
SubscriptValues(l, n) ==
    IF l.N = 0 THEN {l.data[1]}
    ELSE IF n <= l.N THEN {l.data[n + 1]}
    ELSE Elems

\* the elements between two iterators of _data, first of them first;
\* an iterator is the index of the slot it points to
RECURSIVE Walk(_, _, _)
Walk(data, it, last) ==
    IF it = last THEN <<>> ELSE <<data[it + 1]>> \o Walk(data, it + 1, last)

\* the elements between two reverse iterators of _data; a reverse iterator
\* is the index of its base, and it points to the slot before the base
RECURSIVE ReverseWalk(_, _, _)
ReverseWalk(data, it, last) ==
    IF it = last THEN <<>>
    ELSE <<data[it]>> \o ReverseWalk(data, it - 1, last)

\* begin() and cbegin()
begin(l) == 0

\* an end() that is the end of the capacity
end_capacity(l) == l.N

\* end() and cend(): begin() + size()
end(l) == begin(l) + size(l)

\* rbegin() and crbegin(): _data.rbegin() + (N - size()), where
\* _data.rbegin() has the base N + 1
rbegin(l) == (l.N + 1) - (l.N - size(l))

\* rend() and crend(): _data.rend()
rend(l) == 0

\* a substr that starts copying one slot late
substr_late(l, pos, count) ==
    LET s == size(l)
        result == DefaultCtor(l.T, l.N)
    IN  IF pos >= s THEN result
        ELSE LET c == IF count > s - pos THEN s - pos ELSE count
                 copied == [i \in 1..(l.N + 1) |->
                               IF i <= c THEN l.data[pos + i + 1] ELSE 0]
             IN  [result EXCEPT !.data = [copied EXCEPT ![c + 1] = 0]]

\* substr(pos, count)
substr(l, pos, count) ==
    LET s == size(l)
        result == DefaultCtor(l.T, l.N)
    IN  IF pos >= s THEN result
        ELSE LET c == IF count > s - pos THEN s - pos ELSE count
                 copied == [i \in 1..(l.N + 1) |->
                               IF i <= c THEN l.data[pos + i] ELSE 0]
             IN  [result EXCEPT !.data = [copied EXCEPT ![c + 1] = 0]]

----------------------------------------------------------------------------
(* Algorithm surface: the view projection and the searches on it *)

\* static constexpr size_t npos = view_type::npos, the largest size_t,
\* written as -1
npos == -1

\* operator view_type(): {data(), size()}
sv(l) == SubSeq(l.data, 1, size(l))

MinOr(S) == IF S = {} THEN npos ELSE CHOOSE x \in S : \A y \in S : x <= y
MaxOr(S) == IF S = {} THEN npos ELSE CHOOSE x \in S : \A y \in S : x >= y

\* the positions of v at which w occurs, and the positions of v that hold
\* an element of w
Occurrences(v, w) ==
    {i \in 0..Len(v) : /\ i + Len(w) <= Len(v)
                       /\ \A k \in 1..Len(w) : v[i + k] = w[k]}
PositionsOf(v, w) == {i \in 0..(Len(v) - 1) : \E k \in 1..Len(w) : v[i + 1] = w[k]}
PositionsNotOf(v, w) == {i \in 0..(Len(v) - 1) : \A k \in 1..Len(w) : v[i + 1] # w[k]}

\* std::basic_string_view: find, rfind, find_first_of, find_last_of,
\* find_first_not_of, find_last_not_of with their default positions
SvSearch(v, w) ==
    << MinOr(Occurrences(v, w)), MaxOr(Occurrences(v, w)),
       MinOr(PositionsOf(v, w)), MaxOr(PositionsOf(v, w)),
       MinOr(PositionsNotOf(v, w)), MaxOr(PositionsNotOf(v, w)) >>

\* the six searches, overload (const Resized<M>& str, size_t pos):
\* if constexpr (M > N) return npos; return sv().find(str.sv(), pos);
SearchResized(l, M, str) ==
    IF M > l.N THEN [i \in 1..6 |-> npos] ELSE SvSearch(sv(l), sv(str))

\* the six searches, overload (const view_type& view, size_t pos)
SearchView(l, view) == SvSearch(sv(l), view)

\* lit.find(str) and the five others with a literal argument: M of
\* Resized<M> stands inside std::bit_ceil(M) and cannot be deduced, so the
\* call takes the view overload through operator view_type() unless M is
\* given explicitly
SearchCall(l, str, explicitM) ==
    IF explicitM THEN SearchResized(l, str.N, str) ELSE SearchView(l, sv(str))

----------------------------------------------------------------------------
(* Mutation and concatenation *)

RECURSIVE CopyLoop_PastEnd(_, _, _, _, _, _)
CopyLoop_PastEnd(data, d, src, s, sEnd, N) ==
    IF d # N + 1 /\ s # sEnd
    THEN CopyLoop_PastEnd([data EXCEPT ![d + 1] = src[s + 1]],
                          d + 1, src, s + 1, sEnd, N)
    ELSE data

\* while (d != data() + ArraySize and s != sEnd) *(d++) = *(s++);
RECURSIVE CopyLoop(_, _, _, _, _, _)
CopyLoop(data, d, src, s, sEnd, N) ==
    IF d # N /\ s # sEnd
    THEN CopyLoop([data EXCEPT ![d + 1] = src[s + 1]],
                  d + 1, src, s + 1, sEnd, N)
    ELSE data

\* operator += (const CT::LiteralString auto& rhs)
AppendLiteral(l, rhs) ==
    [l EXCEPT !.data = CopyLoop(l.data, size(l), rhs.data, 0, size(rhs) + 1, l.N)]

\* operator += (const C(&rhs)[M])
AppendArray(l, rhs) ==
    [l EXCEPT !.data = CopyLoop(l.data, size(l), rhs, 0, Len(rhs), l.N)]

\* the same loop when the source is the receiver itself: s reads the
\* storage that d is writing
RECURSIVE CopyLoopAliased(_, _, _, _, _)
CopyLoopAliased(data, d, s, sEnd, N) ==
    IF d # N /\ s # sEnd
    THEN CopyLoopAliased([data EXCEPT ![d + 1] = data[s + 1]],
                         d + 1, s + 1, sEnd, N)
    ELSE data

\* operator += (const CT::LiteralString auto& rhs) with rhs the receiver
AppendSelf(l) ==
    [l EXCEPT !.data = CopyLoopAliased(l.data, size(l), 0, size(l) + 1, l.N)]

\* operator + (const LHS& lhs, const RHS& rhs), both strings
Concat(lhs, rhs) ==
    AppendLiteral(WidenCtor(lhs.T, Resized(lhs.N + rhs.N), lhs), rhs)

----------------------------------------------------------------------------
(* Comparator *)

\* a string comparison over the whole storage instead of the content
StringEqString_Storage(lhs, rhs) == lhs.data = rhs.data

\* both operands are strings
StringEqString(lhs, rhs) ==
    IF size(lhs) # size(rhs) THEN FALSE
    ELSE \A i \in 0..(size(lhs) - 1) : At(lhs, i) = At(rhs, i)

\* a string/value comparison that forgets the size() == 1 test
StringEqValue_NoSize(s, v) ==
    (empty(s) /\ empty(v)) \/ At(s, 0) = At(v, 0)

\* one operand is a string, the other a value of a comparable type
StringEqValue(s, v) ==
    (empty(s) /\ empty(v)) \/ (size(s) = 1 /\ At(s, 0) = At(v, 0))

\* a value comparison that takes uncomparable element types for equal
ValuesEq_Lax(lhs, rhs) ==
    IF ComparableWith(lhs.T, rhs.T) THEN At(lhs, 0) = At(rhs, 0)
    ELSE TRUE

\* neither operand is a string
ValuesEq(lhs, rhs) ==
    IF ComparableWith(lhs.T, rhs.T) THEN At(lhs, 0) = At(rhs, 0)
    ELSE IsUndefined(lhs) /\ IsUndefined(rhs)

\* operator == (const LHS& lhs, const RHS& rhs)
OperatorEq(lhs, rhs) ==
    IF IsString(lhs) /\ IsString(rhs) THEN StringEqString(lhs, rhs)
    ELSE IF IsString(lhs)
         THEN IF IsUndefined(rhs) THEN empty(lhs)
              ELSE IF ComparableWith(lhs.T, rhs.T) THEN StringEqValue(lhs, rhs)
              ELSE FALSE
    ELSE IF IsString(rhs)
         THEN IF IsUndefined(lhs) THEN empty(rhs)
              ELSE IF ComparableWith(lhs.T, rhs.T) THEN StringEqValue(rhs, lhs)
              ELSE FALSE
    ELSE ValuesEq(lhs, rhs)

\* operator == (const S& lhs, view_type rhs), and the array overloads once
\* the array is a view
StringEqView(lhs, view) == sv(lhs) = view

\* view_type {array}, static_cast<view_type>(array): the array decays to a
\* pointer and the view ends before the first zero found from there. An
\* array that holds no zero is read past its end, which is undefined: the
\* view then holds the whole array and whatever follows it in memory
CStrViews(array) ==
    IF \E k \in 1..Len(array) : array[k] = 0
    THEN {SubSeq(array, 1, (CHOOSE k \in 1..Len(array) :
                               /\ array[k] = 0
                               /\ \A j \in 1..(k - 1) : array[j] # 0) - 1)}
    ELSE {array} \cup {array \o <<c>> : c \in Elems \ {0}}

\* operator == of a literal and a raw array, the same in the two operand
\* orders: a string against the view of the array, a value against the
\* array's first element, an Undefined against the zero element
OperatorEqArray(l, array, view) ==
    IF IsString(l) THEN StringEqView(l, view)
    ELSE IF IsValue(l) THEN l.data[1] = array[1]
    ELSE array[1] = 0

\* operator == of a literal and a view: a string by its own view, an
\* Undefined iff the view is empty; a value has no such operator
OperatorEqView(l, view) ==
    IF IsString(l) THEN StringEqView(l, view) ELSE view = <<>>

\* std::basic_string_view <=> : traits compare of the common prefix, then
\* the lengths; -1 is less, 0 equal, 1 greater
RECURSIVE SvCompare(_, _)
SvCompare_Length(v, w) ==
    IF Len(v) < Len(w) THEN -1 ELSE IF Len(v) > Len(w) THEN 1 ELSE 0
SvCompare(v, w) ==
    IF v = <<>> /\ w = <<>> THEN 0
    ELSE IF v = <<>> THEN -1
    ELSE IF w = <<>> THEN 1
    ELSE IF Head(v) < Head(w) THEN -1
    ELSE IF Head(v) > Head(w) THEN 1
    ELSE SvCompare(Tail(v), Tail(w))

\* operator <=> (const LiteralString&, const LiteralString&)
ThreeWayLiteral(lhs, rhs) == SvCompare(sv(lhs), sv(rhs))

\* operator <=> of a string and a view, in the two operand orders
ThreeWayView(lhs, view) == SvCompare(sv(lhs), view)
ThreeWayViewSwapped(view, rhs) == SvCompare(view, sv(rhs))

----------------------------------------------------------------------------
(* Inputs *)

\* source arrays of every length a directly constructed literal accepts
Arrays == UNION {[1..m -> Elems] : m \in 1..(TopCap + 1)}

\* the literals a constructor call produces
Strings ==
    {ArrayCtor(T, N, a) : <<T, N, a>> \in
        {t \in StringTypes \X Caps \X Arrays : Len(t[3]) <= t[2] + 1}}

Values == {ValueCtor(T, c) : <<T, c>> \in ValueTypes \X Elems}

Operands == {DefaultCtor(Sentinel, 0)} \cup Values \cup Strings

\* the Undefined, the values and the strings of capacity 1
NarrowOperands == {x \in Operands : x.N <= 1}

\* views over character sequences of every length a literal holds
Views == UNION {[1..m -> Elems] : m \in 0..TopCap}

----------------------------------------------------------------------------
(* State machine: lit is the literal object, res the outcome of the last  *)
(* operation                                                               *)

NoLit == [T |-> "none", N |-> 0, data |-> <<>>]

Blank ==
    [op |-> "init", lhs |-> NoLit, rhs |-> NoLit, out |-> NoLit,
     arr |-> <<>>, b |-> FALSE, b2 |-> FALSE, b3 |-> FALSE,
     n |-> 0, m |-> 0, ty |-> "none",
     safe |-> FALSE, thrown |-> FALSE, vals |-> <<>>, vals2 |-> <<>>,
     third |-> NoLit]

Init ==
    /\ lit = DefaultCtor(Sentinel, 0)
    /\ res = [Blank EXCEPT !.op = "default"]

\* literal_t x;
ConstructDefault ==
    /\ lit' = DefaultCtor(Sentinel, 0)
    /\ res' = [Blank EXCEPT !.op = "default"]

\* literal_t x = c;
ConstructValue ==
    \E T \in ValueTypes, c \in Elems :
        /\ lit' = ValueCtor(T, c)
        /\ res' = [Blank EXCEPT !.op = "value", !.n = c]

\* literal_t<T, N> x = array;
ConstructArray ==
    \E T \in StringTypes, N \in Caps, array \in Arrays :
        /\ Len(array) <= N + 1
        /\ lit' = ArrayCtor(T, N, array)
        /\ res' = [Blank EXCEPT !.op = "array", !.arr = array]

\* literal_t<T, N> x = lit; the implicit copy when the types agree, the
\* widening constructor otherwise
CopyConstruct ==
    \E T \in StringTypes, N \in Caps :
        /\ IsString(lit)
        /\ lit.T = "char"
        /\ lit.N <= N
        /\ lit' = IF lit.N = N /\ T = lit.T THEN lit ELSE WidenCtor(T, N, lit)
        /\ LET x == IF lit.N = N /\ T = lit.T THEN lit ELSE WidenCtor(T, N, lit)
           IN  res' = [Blank EXCEPT !.op = "copy", !.lhs = lit, !.rhs = lit,
                                    !.n = size(x), !.m = size(lit),
                                    !.b = OperatorEq(x, lit),
                                    !.b2 = OperatorEq(lit, x)]

\* lit[n] = c; for an index in range
AssignIndex ==
    \E n \in 0..(TopCap - 1), c \in Elems :
        /\ IsString(lit)
        /\ n < size(lit)
        /\ lit' = [lit EXCEPT !.data[n + 1] = c]
        /\ res' = [Blank EXCEPT !.op = "index", !.lhs = lit, !.n = n, !.m = c]

\* lit = array;
AssignArray ==
    \E array \in Arrays :
        /\ IsString(lit)
        /\ Len(array) = lit.N
        /\ lit' = AssignArrayOp(lit, array)
        /\ res' = [Blank EXCEPT !.op = "assign", !.lhs = lit, !.arr = array]

\* lit.size(), lit.empty(), bool(lit)
Inspect ==
    /\ lit' = lit
    /\ res' = [Blank EXCEPT !.op = "inspect", !.lhs = lit, !.n = size(lit),
                            !.b = empty(lit), !.b2 = ToBool(lit)]

\* lit.substr(pos, count), and the comparison of the result with lit
Substr ==
    \E pos \in 0..(TopCap + 1), count \in 0..(TopCap + 1) :
        /\ IsString(lit)
        /\ lit' = lit
        /\ res' = [Blank EXCEPT !.op = "substr", !.lhs = lit,
                                !.out = substr(lit, pos, count),
                                !.n = pos, !.m = count,
                                !.b = OperatorEq(lit, substr(lit, pos, count))]

\* lit += rhs; with a string literal
AppendString ==
    \E rhs \in Strings :
        /\ IsString(lit)
        /\ lit' = AppendLiteral(lit, rhs)
        /\ res' = [Blank EXCEPT !.op = "append", !.lhs = lit, !.rhs = rhs]

\* lit += array;
AppendRaw ==
    \E array \in Arrays :
        /\ IsString(lit)
        /\ lit' = AppendArray(lit, array)
        /\ res' = [Blank EXCEPT !.op = "append_raw", !.lhs = lit, !.arr = array]

\* lit + rhs; the result is built by the widening constructor, which takes
\* a literal_t<char, M> only
Concatenate ==
    \E rhs \in Strings :
        /\ IsString(lit)
        /\ lit.T = "char"
        /\ lit' = lit
        /\ res' = [Blank EXCEPT !.op = "concat", !.lhs = lit, !.rhs = rhs,
                                !.out = Concat(lit, rhs)]

\* auto x = <the instance the last operation produced>;
Adopt ==
    /\ res.out # NoLit
    /\ res.out.N <= TopCap
    /\ lit' = res.out
    /\ res' = [Blank EXCEPT !.op = "adopt"]

\* lit == rhs and rhs == lit
Compare ==
    \E rhs \in Operands :
        /\ lit' = lit
        /\ res' = [Blank EXCEPT !.op = "eq", !.lhs = lit, !.rhs = rhs,
                                !.b = OperatorEq(lit, rhs),
                                !.b2 = OperatorEq(rhs, lit)]

\* Resized<M>
Resize ==
    \E M \in 0..MaxM :
        /\ lit' = lit
        /\ res' = [Blank EXCEPT !.op = "resize", !.m = M, !.n = Resized(M)]

\* CT::LiteralUndefined, CT::LiteralValue, CT::LiteralString of literal_t<T, N>
Classify ==
    \E T \in AllTypes, N \in {0} \cup Caps :
        /\ lit' = lit
        /\ res' = [Blank EXCEPT !.op = "classify", !.ty = T, !.n = N,
                                !.b = LiteralUndefined(T, N),
                                !.b2 = LiteralValue(T, N),
                                !.b3 = LiteralString(T, N)]

\* literal_t x = array; the capacity is deduced as bit_ceil(M); x is then
\* inspected and compared with the array it was built from
ConstructCTAD ==
    \E T \in StringTypes, array \in Arrays :
      \E view \in CStrViews(array) :
        LET x == ArrayCtor(T, bit_ceil(Len(array)), array)
        IN  /\ lit' = x
            /\ res' = [Blank EXCEPT !.op = "ctad", !.arr = array,
                                    !.n = size(x), !.b = empty(x),
                                    !.b2 = ToBool(x),
                                    !.b3 = StringEqView(x, view)]

\* lit[n], with or without LANGULUS_OPTION_SAFE_MODE
Subscript ==
    \E safe \in BOOLEAN, n \in 0..(lit.N + 1) :
      \E v \in SubscriptValues(lit, n) :
        /\ lit' = lit
        /\ res' = IF SubscriptThrows(lit, n, safe)
                  THEN [Blank EXCEPT !.op = "subscript", !.lhs = lit, !.n = n,
                                     !.safe = safe, !.thrown = TRUE]
                  ELSE [Blank EXCEPT !.op = "subscript", !.lhs = lit, !.n = n,
                                     !.safe = safe, !.m = v]

\* for (auto& c : lit), and the same loop over rbegin()..rend()
Iterate ==
    /\ IsString(lit)
    /\ lit' = lit
    /\ res' = [Blank EXCEPT !.op = "iterate", !.lhs = lit,
                            !.vals = Walk(lit.data, begin(lit), end(lit)),
                            !.vals2 = ReverseWalk(lit.data, rbegin(lit), rend(lit))]

\* lit.find(rhs), lit.rfind(rhs), ..., lit.find_last_not_of(rhs), and the
\* same calls as lit.template find<M>(rhs) with the capacity of rhs for M
Search ==
    \E rhs \in Strings, explicitM \in BOOLEAN :
        /\ IsString(lit)
        /\ lit' = lit
        /\ res' = [Blank EXCEPT !.op = "search", !.lhs = lit, !.rhs = rhs,
                                !.b = explicitM,
                                !.vals = SearchCall(lit, rhs, explicitM)]

\* lit <=> rhs and rhs <=> lit, two strings
Order ==
    \E rhs \in Strings :
        /\ IsString(lit)
        /\ lit' = lit
        /\ res' = [Blank EXCEPT !.op = "order", !.lhs = lit, !.rhs = rhs,
                                !.m = ThreeWayLiteral(lit, rhs),
                                !.n = ThreeWayLiteral(rhs, lit)]

\* lit <=> array and array <=> lit
OrderRaw ==
    \E array \in Arrays :
      \E view \in CStrViews(array), view2 \in CStrViews(array) :
        /\ IsString(lit)
        /\ lit' = lit
        /\ res' = [Blank EXCEPT !.op = "order_raw", !.lhs = lit, !.arr = array,
                                !.m = ThreeWayView(lit, view),
                                !.n = ThreeWayViewSwapped(view2, lit)]

\* lit <=> view and view <=> lit
OrderView ==
    \E view \in Views :
        /\ IsString(lit)
        /\ lit' = lit
        /\ res' = [Blank EXCEPT !.op = "order_view", !.lhs = lit, !.vals = view,
                                !.m = ThreeWayView(lit, view),
                                !.n = ThreeWayViewSwapped(view, lit)]

\* lit == array and array == lit
CompareRaw ==
    \E array \in Arrays :
      \E view \in CStrViews(array), view2 \in CStrViews(array) :
        /\ lit' = lit
        /\ res' = [Blank EXCEPT !.op = "eq_raw", !.lhs = lit, !.arr = array,
                                !.b = OperatorEqArray(lit, array, view),
                                !.b2 = OperatorEqArray(lit, array, view2)]

\* lit == view and view == lit
CompareView ==
    \E view \in Views :
        /\ ~IsValue(lit)
        /\ lit' = lit
        /\ res' = [Blank EXCEPT !.op = "eq_view", !.lhs = lit, !.vals = view,
                                !.b = OperatorEqView(lit, view),
                                !.b2 = OperatorEqView(lit, view)]

\* lit += lit;
AppendOwn ==
    /\ IsString(lit)
    /\ lit' = AppendSelf(lit)
    /\ res' = [Blank EXCEPT !.op = "append_self", !.lhs = lit, !.rhs = lit]

\* lit == lit, lit == b, b == lit, b == c and lit == c, with b of capacity
\* 0 or 1 and an Undefined or a value for c
Relate ==
    \E b \in NarrowOperands, c \in {DefaultCtor(Sentinel, 0)} \cup Values :
        /\ lit' = lit
        /\ res' = [Blank EXCEPT !.op = "relate", !.lhs = lit, !.rhs = b,
                                !.third = c,
                                !.vals = << OperatorEq(lit, lit),
                                            OperatorEq(lit, b),
                                            OperatorEq(b, lit),
                                            OperatorEq(b, c),
                                            OperatorEq(lit, c) >>]

Next ==
    \/ ConstructDefault
    \/ ConstructValue
    \/ ConstructArray
    \/ CopyConstruct
    \/ AssignIndex
    \/ AssignArray
    \/ Inspect
    \/ Substr
    \/ AppendString
    \/ AppendRaw
    \/ Concatenate
    \/ Adopt
    \/ Compare
    \/ Resize
    \/ Classify

Spec == Init /\ [][Next]_vars

\* construction, access and iteration
NextAccess ==
    \/ ConstructDefault
    \/ ConstructValue
    \/ ConstructArray
    \/ ConstructCTAD
    \/ Inspect
    \/ Subscript
    \/ Iterate

SpecAccess == Init /\ [][NextAccess]_vars

\* construction and the searches
NextSearch ==
    \/ ConstructArray
    \/ Search

SpecSearch == Init /\ [][NextSearch]_vars

\* construction and the three-way comparisons
NextOrder ==
    \/ ConstructArray
    \/ Order
    \/ OrderRaw
    \/ OrderView

SpecOrder == Init /\ [][NextOrder]_vars

\* construction and the comparisons with raw arrays and views
NextEqRaw ==
    \/ ConstructDefault
    \/ ConstructValue
    \/ ConstructArray
    \/ CompareRaw
    \/ CompareView

SpecEqRaw == Init /\ [][NextEqRaw]_vars

\* construction, with deduced capacities too, and the appends
NextAppend ==
    \/ ConstructArray
    \/ ConstructCTAD
    \/ AppendString
    \/ AppendRaw
    \/ AppendOwn

SpecAppend == Init /\ [][NextAppend]_vars

\* construction and the comparisons among three literals
NextRelate ==
    \/ ConstructDefault
    \/ ConstructValue
    \/ ConstructArray
    \/ Relate

SpecRelate == Init /\ [][NextRelate]_vars

----------------------------------------------------------------------------
(* Vocabulary of the properties, stated without the operators above *)

\* the number of elements of a sequence before its first zero among the
\* first n
PopulatedLen(seq, n) ==
    CHOOSE k \in 0..n :
        /\ k = n \/ seq[k + 1] = 0
        /\ \A j \in 1..k : seq[j] # 0

\* the populated length and the populated content of a string
Populated(l) == PopulatedLen(l.data, l.N)
ContentOf(l) == SubSeq(l.data, 1, Populated(l))

\* the populated content of a raw array
ArrayContent(array) == SubSeq(array, 1, PopulatedLen(array, Len(array)))

\* the smallest power of two that is not smaller than M (M >= 1)
SmallestPow2(M) ==
    CHOOSE p \in 1..(2 * M) :
        /\ has_single_bit(p) /\ p >= M
        /\ \A q \in 1..(p - 1) : ~(has_single_bit(q) /\ q >= M)

TheDefault == DefaultCtor(Sentinel, 0)

\* literals whose element types, the sentinel aside, are comparable with
\* one another
MutuallyComparable(S) ==
    \A x \in S, y \in S :
        (x.T # Sentinel /\ y.T # Sentinel) => ComparableWith(x.T, y.T)

\* a sequence read from its last element to its first
Reversed(seq) == [i \in 1..Len(seq) |-> seq[Len(seq) + 1 - i]]

\* a raw array that ends with the zero element
ZeroTerminated(array) == array[Len(array)] = 0

\* the lexicographic order of two sequences: v is before w when, at the
\* first position where they part, v has ended or holds the smaller element
LexBefore(v, w) ==
    \E k \in 0..Len(v) :
        /\ k <= Len(w)
        /\ \A j \in 1..k : v[j] = w[j]
        /\ \/ k = Len(v) /\ k < Len(w)
           \/ k < Len(v) /\ k < Len(w) /\ v[k + 1] < w[k + 1]

Lexicographic(v, w) == IF v = w THEN 0 ELSE IF LexBefore(v, w) THEN -1 ELSE 1

----------------------------------------------------------------------------
(* Properties *)

\* C1: every string literal the operations produce has 0 <= size() <= N and
\* holds the zero element in the slot at index size()
C1_Terminated ==
    \A l \in {lit, res.out} :
        IsString(l) => /\ size(l) \in 0..l.N
                       /\ l.data[size(l) + 1] = 0

\* C2: a default constructed literal is Undefined, has size 0, is empty and
\* converts to false; in either operand order it equals every empty string
\* and every Undefined, and differs from every non-empty string and every
\* value
C2_DefaultConstructed ==
    /\ res.op = "default" =>
          /\ LiteralUndefined(lit.T, lit.N)
          /\ ~LiteralValue(lit.T, lit.N)
          /\ ~LiteralString(lit.T, lit.N)
    /\ (res.op = "inspect" /\ res.lhs = TheDefault) =>
          res.n = 0 /\ res.b /\ ~res.b2
    /\ (res.op = "eq" /\ res.lhs = TheDefault) =>
          LET expected ==
                  IF res.rhs.T = Sentinel THEN TRUE
                  ELSE IF res.rhs.N > 0 THEN ContentOf(res.rhs) = <<>>
                  ELSE FALSE
          IN  res.b = expected /\ res.b2 = expected

C2_Witness ==
    /\ res.op = "eq" /\ res.lhs = TheDefault
    /\ IsString(res.rhs) /\ res.rhs.N = 2
    /\ res.rhs.data[1] = 0 /\ res.rhs.data[2] # 0
    /\ res.b /\ res.b2

\* C3: two strings are equal iff their populated contents (the elements
\* before the first terminator) are the same sequence, whatever their
\* capacities and the slots behind the terminator hold
C3_StringEquality ==
    (res.op = "eq" /\ IsString(res.lhs) /\ IsString(res.rhs)) =>
        LET expected == ContentOf(res.lhs) = ContentOf(res.rhs)
        IN  res.b = expected /\ res.b2 = expected

C3_Witness ==
    /\ res.op = "eq" /\ IsString(res.lhs) /\ IsString(res.rhs)
    /\ res.lhs.N = 1 /\ res.rhs.N = 2
    /\ Populated(res.lhs) = 1 /\ res.rhs.data[3] # 0
    /\ res.b /\ res.b2

\* C4: a string s and a value v of comparable element types are equal iff
\* both are empty (size() == 0), or s holds exactly one element and it is
\* v's element; with uncomparable element types they are unequal
C4_StringValueEquality ==
    \A p \in {<<res.lhs, res.rhs>>, <<res.rhs, res.lhs>>} :
        (res.op = "eq" /\ IsString(p[1]) /\ IsValue(p[2])) =>
            LET s == p[1]
                v == p[2]
                expected ==
                    /\ ComparableWith(s.T, v.T)
                    /\ \/ Populated(s) = 0 /\ size(v) = 0
                       \/ Populated(s) = 1 /\ s.data[1] = v.data[1]
            IN  res.b = expected /\ res.b2 = expected

C4_Witness ==
    /\ res.op = "eq" /\ IsString(res.lhs) /\ IsValue(res.rhs)
    /\ res.rhs.T = "float"
    /\ res.lhs.N = 2 /\ Populated(res.lhs) = 1
    /\ res.lhs.data[1] = res.rhs.data[1]
    /\ res.b /\ res.b2

\* C5: two values are equal iff their element types are comparable and
\* their single elements are equal
C5_ValueEquality ==
    (res.op = "eq" /\ IsValue(res.lhs) /\ IsValue(res.rhs)) =>
        LET expected == /\ ComparableWith(res.lhs.T, res.rhs.T)
                        /\ res.lhs.data[1] = res.rhs.data[1]
        IN  res.b = expected /\ res.b2 = expected

C5_Witness ==
    /\ res.op = "eq" /\ IsValue(res.lhs) /\ IsValue(res.rhs)
    /\ res.lhs.T = "float" /\ res.rhs.T = "char"
    /\ res.lhs.data[1] # res.rhs.data[1]
    /\ ~res.b /\ ~res.b2

\* C6: a + b has capacity bucketed(N1 + N2), size a.size() + b.size(), and
\* as populated content a's populated content followed by b's
C6_Concatenation ==
    res.op = "concat" =>
        /\ res.out.N = SmallestPow2(res.lhs.N + res.rhs.N)
        /\ size(res.out) = size(res.lhs) + size(res.rhs)
        /\ ContentOf(res.out) = ContentOf(res.lhs) \o ContentOf(res.rhs)

\* C7: += of a source whose populated length exceeds the remaining capacity
\* N - size() writes exactly the first N - size() source elements behind the
\* old content, changes nothing else, and leaves size() == N
C7_TruncatingAppend ==
    res.op \in {"append", "append_raw"} =>
        LET old == res.lhs
            src == IF res.op = "append" THEN ContentOf(res.rhs)
                   ELSE ArrayContent(res.arr)
            was == Populated(old)
        IN  Len(src) > old.N - was =>
               /\ lit.data = [i \in 1..(old.N + 1) |->
                                 IF i > was /\ i <= old.N THEN src[i - was]
                                 ELSE old.data[i]]
               /\ size(lit) = old.N

C7_Witness ==
    /\ res.op = "append_raw"
    /\ res.lhs.N = 2 /\ Populated(res.lhs) = 1
    /\ Len(ArrayContent(res.arr)) = 2
    /\ size(lit) = 2

\* C8 as stated: Resize(0) = 0, otherwise the smallest power of two >= M
C8_ResizeAsStated ==
    res.op = "resize" =>
        res.n = IF res.m = 0 THEN 0 ELSE SmallestPow2(res.m)

\* C8: Resize(0) = 1, otherwise the smallest power of two >= M; so
\* Resize(1) = 1, Resize(2) = 2, Resize(3) = 4 and Resize(5) = 8
C8_Resize ==
    res.op = "resize" =>
        /\ res.n = IF res.m = 0 THEN 1 ELSE SmallestPow2(res.m)
        /\ res.m = 1 => res.n = 1
        /\ res.m = 2 => res.n = 2
        /\ res.m = 3 => res.n = 4
        /\ res.m = 5 => res.n = 8

C8_Witness == res.op = "resize" /\ res.m = 0 /\ res.n = 1

\* C9: exactly one of LiteralUndefined, LiteralValue, LiteralString holds of
\* every instantiable literal_t<T, N>
C9_ExactlyOneCategory ==
    (res.op = "classify" /\ Instantiable(res.n)) =>
        Cardinality({i \in 1..3 : <<res.b, res.b2, res.b3>>[i]}) = 1

\* C10: s.substr(0, s.size()) == s for every string s
C10_SubstrWhole ==
    (res.op = "substr" /\ res.n = 0 /\ res.m = Populated(res.lhs)) => res.b

C10_Witness ==
    /\ res.op = "substr" /\ res.n = 0 /\ res.m = 2
    /\ res.lhs.N = 2 /\ Populated(res.lhs) = 2
    /\ res.out.data[1] = res.lhs.data[1] /\ res.out.data[2] = res.lhs.data[2]
    /\ res.b

\* C11: in safe mode operator [] (n) on a string throws exactly for
\* n >= size() and otherwise returns element n; a throwing access leaves
\* the instance as it was
C11_SafeSubscript ==
    (res.op = "subscript" /\ res.safe /\ IsString(res.lhs)) =>
        /\ res.thrown <=> res.n >= Populated(res.lhs)
        /\ ~res.thrown => res.m = res.lhs.data[res.n + 1]
        /\ lit = res.lhs

C11_Witness ==
    /\ res.op = "subscript" /\ res.safe /\ IsString(res.lhs)
    /\ res.lhs.N = 2 /\ Populated(res.lhs) = 1 /\ res.n = 1
    /\ res.thrown /\ lit = res.lhs

\* C12: each of the six searches reports npos when the operand is a string
\* whose capacity exceeds the receiver's
C12_LargerOperandNotFound ==
    (res.op = "search" /\ res.rhs.N > res.lhs.N) =>
        \A i \in 1..6 : res.vals[i] = npos

\* C13: the three-way comparison of two strings is the lexicographic
\* comparison of their populated contents whatever their capacities, and so
\* is the comparison of a string with a zero-terminated raw array or with a
\* view, in either operand order
C13_LexicographicOrder ==
    /\ res.op = "order" =>
          /\ res.m = Lexicographic(ContentOf(res.lhs), ContentOf(res.rhs))
          /\ res.n = Lexicographic(ContentOf(res.rhs), ContentOf(res.lhs))
    /\ (res.op = "order_raw" /\ ZeroTerminated(res.arr)) =>
          /\ res.m = Lexicographic(ContentOf(res.lhs), ArrayContent(res.arr))
          /\ res.n = Lexicographic(ArrayContent(res.arr), ContentOf(res.lhs))
    /\ res.op = "order_view" =>
          /\ res.m = Lexicographic(ContentOf(res.lhs), res.vals)
          /\ res.n = Lexicographic(res.vals, ContentOf(res.lhs))

C13_Witness ==
    /\ res.op = "order"
    /\ res.lhs.N = 1 /\ res.rhs.N = 2
    /\ ContentOf(res.lhs) = <<2>> /\ ContentOf(res.rhs) = <<1, 1>>
    /\ res.m = 1 /\ res.n = -1

C15_RawEquality ==
    /\ res.op = "eq_raw" =>
          LET expected ==
                  IF IsString(res.lhs)
                  THEN ContentOf(res.lhs) = ArrayContent(res.arr)
                  ELSE IF IsValue(res.lhs) THEN res.lhs.data[1] = res.arr[1]
                  ELSE ArrayContent(res.arr) = <<>>
          IN  res.b = expected /\ res.b2 = expected
    /\ res.op = "eq_view" =>
          LET expected ==
                  IF IsString(res.lhs) THEN ContentOf(res.lhs) = res.vals
                  ELSE res.vals = <<>>
          IN  res.b = expected /\ res.b2 = expected

\* C16: the boolean conversion of a value or of a string is true iff slot 0
\* holds a non-zero element, so a string converts to true iff it is not
\* empty and a value that holds zero converts to false; the conversion of an
\* Undefined is false
C16_BooleanConversion ==
    res.op = "inspect" =>
        /\ IsUndefined(res.lhs) => ~res.b2
        /\ IsValue(res.lhs) => (res.b2 <=> res.lhs.data[1] # 0)
        /\ IsString(res.lhs) =>
              /\ res.b2 <=> res.lhs.data[1] # 0
              /\ res.b2 <=> Populated(res.lhs) > 0
              /\ res.b2 <=> ~res.b

C16_Witness ==
    /\ res.op = "inspect" /\ IsValue(res.lhs)
    /\ res.lhs.data[1] = 0 /\ ~res.b2

\* C17: forward iteration over a string visits exactly the size() populated
\* slots 0, 1, ..., size() - 1 in that order, and neither the terminator
\* nor a slot after it
C17_ForwardIteration ==
    res.op = "iterate" =>
        /\ Len(res.vals) = Populated(res.lhs)
        /\ \A k \in 1..Len(res.vals) : res.vals[k] = res.lhs.data[k]
        /\ \A k \in 1..Len(res.vals) : res.vals[k] # 0

C17_Witness ==
    /\ res.op = "iterate"
    /\ res.lhs.N = 2 /\ res.lhs.data = <<1, 0, 2>>
    /\ res.vals = <<1>>

\* C18: reverse iteration over a string yields the reverse of what forward
\* iteration yields
C18_ReverseIteration ==
    res.op = "iterate" => res.vals2 = Reversed(res.vals)

\* C19: LiteralUndefined holds of literal_t<T, N> iff T is the sentinel
\* element type and N is 0; it does not hold of a sentinel literal with N > 0
C19_UndefinedClassifier ==
    res.op = "classify" => (res.b <=> (res.ty = Sentinel /\ res.n = 0))

\* C20: an append whose source fits in the remaining capacity leaves the
\* receiver's populated elements as they were, writes the source's content
\* after them and makes the size the old size plus the source's populated
\* length, whatever the receiver holds past its terminator and whether the
\* source is a string or a raw array; an append to a full receiver changes
\* nothing
C20_FittingAppend ==
    res.op \in {"append", "append_raw", "append_self"} =>
        LET oldSize == Populated(res.lhs)
            source == IF res.op = "append_raw" THEN ArrayContent(res.arr)
                      ELSE ContentOf(res.rhs)
        IN  /\ oldSize + Len(source) <= res.lhs.N =>
                  /\ \A k \in 1..oldSize : lit.data[k] = res.lhs.data[k]
                  /\ \A k \in 1..Len(source) : lit.data[oldSize + k] = source[k]
                  /\ Populated(lit) = oldSize + Len(source)
            /\ oldSize = res.lhs.N => lit = res.lhs

\* C21: a literal of capacity N constructed from a string x of capacity
\* M <= N and the same element type has the size of x, equals x and holds
\* the zero element in slot size(), also when the size of x is M; x is left
\* as it was
C21_WideningCopy ==
    res.op = "copy" =>
        /\ res.n = res.m
        /\ res.b /\ res.b2
        /\ ContentOf(lit) = ContentOf(res.lhs)
        /\ lit.data[res.n + 1] = 0
        /\ res.rhs = res.lhs

\* C22: equality of literals of every category with mutually comparable
\* element types is reflexive, symmetric and transitive
C22_Equivalence ==
    (res.op = "relate" /\ MutuallyComparable({res.lhs, res.rhs, res.third})) =>
        /\ res.vals[1]
        /\ res.vals[2] => res.vals[3]
        /\ (res.vals[2] /\ res.vals[4]) => res.vals[5]

====
